---- MODULE Spec2Model ----
(***************************************************************************)
(* LZ77 decoder (src/src/decompress.rs).                                   *)
(*                                                                         *)
(* The reader is a finite byte sequence `input` with a cursor `pos`; a     *)
(* read past the end is the io::Error UnexpectedEof of read_exact.         *)
(* Three specifications share the variables:                               *)
(*   Spec / FairSpec  the loop of decompress(), one action per match arm   *)
(*   SpecCB           cb_mask, q_mask and get_control_bytes on every       *)
(*                    control byte 0..255                                  *)
(*   SpecFetch        fetch_offset on arbitrary (dictionary,length,offset) *)
(***************************************************************************)
EXTENDS Integers, Sequences, FiniteSets, TLC

VARIABLES
    input,       \* the bytes behind `reader`
    pos,         \* number of bytes of `input` the reader has consumed
    dictionary,  \* decompress: `dictionary`; SpecFetch: the argument
    pc,          \* position in the code
    token,       \* the Offset value last returned by get_control_bytes
    result,      \* the value returned by the function under examination
    cat,         \* the local `cb_mask` of get_control_bytes (line 79)
    tokStart,    \* history: value of pos when get_control_bytes was last called
    litSum,      \* history: sum of the lengths of the Literal tokens appended
    matchSum,    \* history: sum of the lengths of the Dictionary tokens appended
    iters        \* history: loop iterations that went round again

vars == <<input, pos, dictionary, pc, token, result, cat, tokStart, litSum, matchSum, iters>>

----------------------------------------------------------------------------
(* Bounds of the model *)

\* longest compressed input of Spec
MaxLen == 5
\* longest dictionary handed to fetch_offset in SpecFetch
MaxDict == 5
\* largest `length` handed to fetch_offset in SpecFetch
MaxFetchLen == 16

\* u8::MAX
ByteMax == 255

\* Input alphabet of Spec: 0x00 and 0x01 (literals of 1 and 2 bytes; as a
\* follow-up byte: offsets 1 and 2), 0x20 (category 3), 0x40 (category 4),
\* 0xE0 (category 9).
Bytes == {0, 1, 32, 64, 224}

\* Follow-up bytes r and s of SpecCB
FollowBytes == {0, 1, 14, 127, 128, 255}

\* Dictionary contents of SpecFetch
DictBytes == {0, 1, 2}

SeqsUpTo(S, n) == UNION {[1..k -> S] : k \in 0..n}

----------------------------------------------------------------------------
(* Bit operations on u8 *)

RECURSIVE BitOr(_, _)
BitOr(a, b) ==
    IF a = 0 THEN b
    ELSE IF b = 0 THEN a
    ELSE (IF a % 2 = 1 \/ b % 2 = 1 THEN 1 ELSE 0) + 2 * BitOr(a \div 2, b \div 2)

RECURSIVE BitAnd(_, _)
BitAnd(a, b) ==
    IF a = 0 \/ b = 0 THEN 0
    ELSE (IF a % 2 = 1 /\ b % 2 = 1 THEN 1 ELSE 0) + 2 * BitAnd(a \div 2, b \div 2)

\* q << 8 on usize; q < 32, so nothing is shifted out
Shl8(q) == q * 256

----------------------------------------------------------------------------
(* Values *)

NoToken == [kind |-> "None", length |-> 0, offset |-> 0]
Literal(len) == [kind |-> "Literal", length |-> len, offset |-> 0]
Dictionary(len, off) == [kind |-> "Dictionary", length |-> len, offset |-> off]

\* Result<Vec<u8>, Error>; kind "Panic" is a panic unwinding out of the call
NoResult == [kind |-> "None", val |-> <<>>, msg |-> ""]
Ok(v) == [kind |-> "Ok", val |-> v, msg |-> ""]
Err(m) == [kind |-> "Err", val |-> <<>>, msg |-> m]
Panic(m) == [kind |-> "Panic", val |-> <<>>, msg |-> m]

ErrOffset == "Offset larger than dictionary"
ErrIndex == "Index out of bounds."
ErrLiteral == "Cannot take any more literal bytes, reached end of compressed buffer."
ErrEof == "failed to fill whole buffer"

----------------------------------------------------------------------------
(* The reader *)

\* read_u8: one byte, or UnexpectedEof with the reader drained
read_u8(in, p) ==
    IF p < Len(in)
    THEN [ok |-> TRUE, val |-> in[p + 1], pos |-> p + 1]
    ELSE [ok |-> FALSE, val |-> 0, pos |-> Len(in)]

\* a reader that hands out what is left instead of failing (read for read_exact)
read_bytes_partial(in, p, n) ==
    IF p + n <= Len(in)
    THEN [ok |-> TRUE, val |-> SubSeq(in, p + 1, p + n), pos |-> p + n]
    ELSE [ok |-> TRUE, val |-> SubSeq(in, p + 1, Len(in)), pos |-> Len(in)]

\* read_bytes: exactly n bytes, or UnexpectedEof with the reader drained
read_bytes(in, p, n) ==
    IF p + n <= Len(in)
    THEN [ok |-> TRUE, val |-> SubSeq(in, p + 1, p + n), pos |-> p + n]
    ELSE [ok |-> FALSE, val |-> <<>>, pos |-> Len(in)]

----------------------------------------------------------------------------
(* Control bytes *)

\* value standing for the panic!() at the end of cb_mask
CbPanic == 0

\* cb_mask with the category-5 probe placed before the category-3 probe
cb_mask_misordered(i) ==
    IF BitOr(i, 31) = 31 THEN 1
    ELSE IF BitOr(i, 127) = 127 THEN 5
    ELSE IF BitOr(i, 63) = 63 THEN 3
    ELSE IF BitOr(i, 95) = 95 THEN 4
    ELSE IF BitOr(i, 159) = 159 THEN 6
    ELSE IF BitOr(i, 191) = 191 THEN 7
    ELSE IF BitOr(i, 223) = 223 THEN 8
    ELSE IF BitOr(i, 255) = 255 THEN 9
    ELSE CbPanic

cb_mask(i) ==
    IF BitOr(i, 31) = 31 THEN 1
    ELSE IF BitOr(i, 63) = 63 THEN 3
    ELSE IF BitOr(i, 95) = 95 THEN 4
    ELSE IF BitOr(i, 127) = 127 THEN 5
    ELSE IF BitOr(i, 159) = 159 THEN 6
    ELSE IF BitOr(i, 191) = 191 THEN 7
    ELSE IF BitOr(i, 223) = 223 THEN 8
    ELSE IF BitOr(i, 255) = 255 THEN 9
    ELSE CbPanic

\* q_mask keeping four bits instead of five
q_mask_nibble(i) == BitAnd(i, 15)

q_mask(i) == BitAnd(i, 31)

\* the offset without the + 1
MatchOffset_zero_based(q, b) == Shl8(q) + b

\* the offset expression of lines 87 and 97
MatchOffset(q, b) == Shl8(q) + b + 1

\* get_control_bytes: [kind, tok, pos]; kind is "Ok", "Err" (a `?` on a
\* failed read) or "Panic" (cb_mask's panic!, or unreachable!())
get_control_bytes(in, p) ==
    LET c == read_u8(in, p) IN
    IF ~c.ok THEN [kind |-> "Err", tok |-> NoToken, pos |-> c.pos]
    ELSE
      LET q == q_mask(c.val)
          m == cb_mask(c.val)
      IN
      IF m = CbPanic THEN [kind |-> "Panic", tok |-> NoToken, pos |-> c.pos]
      ELSE IF m = 1 THEN [kind |-> "Ok", tok |-> Literal(1 + q), pos |-> c.pos]
      ELSE IF m \in 3..8 THEN
        LET r == read_u8(in, c.pos) IN
        IF ~r.ok THEN [kind |-> "Err", tok |-> NoToken, pos |-> r.pos]
        ELSE [kind |-> "Ok", tok |-> Dictionary(m, MatchOffset(q, r.val)), pos |-> r.pos]
      ELSE IF m = 9 THEN
        LET r == read_u8(in, c.pos) IN
        IF ~r.ok THEN [kind |-> "Err", tok |-> NoToken, pos |-> r.pos]
        ELSE
          LET s == read_u8(in, r.pos) IN
          IF ~s.ok THEN [kind |-> "Err", tok |-> NoToken, pos |-> s.pos]
          ELSE [kind |-> "Ok", tok |-> Dictionary(9 + r.val, MatchOffset(q, s.val)),
                pos |-> s.pos]
      ELSE [kind |-> "Panic", tok |-> NoToken, pos |-> c.pos]

----------------------------------------------------------------------------
(* fetch_offset *)

\* the guard written with >= : rejects a match that reaches the first byte
OffsetTooLarge_ge(offset, len) == offset >= len

\* the guard of line 56
OffsetTooLarge(offset, len) == offset > len

\* the source index without the wrap
SourcePos_nowrap(len, offset, i) == len - offset + i

\* the source index of line 63
SourcePos(len, offset, i) == len - offset + (i % offset)

\* a loop that stops at the end of the window
FetchCount_window(length, offset) == IF length < offset THEN length ELSE offset

\* the number of iterations of the loop of line 62
FetchCount(length, offset) == length

\* fetch_offset.  The loop of lines 62-68 runs i over 0..length-1 and leaves
\* at the first i whose index is out of range; taking i % offset with
\* offset = 0 panics at i = 0.  Otherwise `result` holds one byte per i.
fetch_offset(dict, length, offset) ==
    IF OffsetTooLarge(offset, Len(dict)) THEN Err(ErrOffset)
    ELSE
      LET n == FetchCount(length, offset) IN
      IF n > 0 /\ offset = 0
      THEN Panic("attempt to calculate the remainder with a divisor of zero")
      ELSE IF \E i \in 0..(n - 1) : SourcePos(Len(dict), offset, i) >= Len(dict)
      THEN Err(ErrIndex)
      ELSE Ok([k \in 1..n |-> dict[SourcePos(Len(dict), offset, k - 1) + 1]])

----------------------------------------------------------------------------
(* decompress *)

Init ==
    /\ input \in SeqsUpTo(Bytes, MaxLen)
    /\ pos = 0
    /\ dictionary = <<>>
    /\ pc = "loop"
    /\ token = NoToken
    /\ result = NoResult
    /\ cat = 0
    /\ tokStart = 0
    /\ litSum = 0
    /\ matchSum = 0
    /\ iters = 0

\* Err(_) => break, left out: the loop goes round again
BreakTo_loop == "loop"

\* where Err(_) => break of lines 32-34 leads: to line 38
BreakTo == "done"

\* the value of line 38 with the error kept instead of dropped
Returned_err(dict) == Err(ErrEof)

\* the value of line 38
Returned(dict) == Ok(dict)

\* line 15, Ok(offset): a token was read; the match of line 17 selects the arm
TokenRead ==
    /\ pc = "loop"
    /\ LET t == get_control_bytes(input, pos) IN
       /\ t.kind # "Err"
       /\ tokStart' = pos
       /\ pos' = t.pos
       /\ token' = t.tok
       /\ cat' = cb_mask(input[pos + 1])
       /\ IF t.kind = "Panic"
          THEN pc' = "done" /\ result' = Panic("get_control_bytes")
          ELSE /\ pc' = (IF t.tok.kind = "Dictionary" THEN "dict" ELSE "lit")
               /\ result' = result
    /\ UNCHANGED <<input, dictionary, litSum, matchSum, iters>>

\* line 15, Err(_) => break, then Ok(dictionary) of line 38
Break ==
    /\ pc = "loop"
    /\ LET t == get_control_bytes(input, pos) IN
       /\ t.kind = "Err"
       /\ tokStart' = pos
       /\ pos' = t.pos
    /\ cat' = (IF pos < Len(input) THEN cb_mask(input[pos + 1]) ELSE cat)
    /\ pc' = BreakTo
    /\ result' = Returned(dictionary)
    /\ UNCHANGED <<input, dictionary, token, litSum, matchSum, iters>>

\* lines 18-21: Offset::Dictionary
DictionaryArm ==
    /\ pc = "dict"
    /\ LET f == fetch_offset(dictionary, token.length, token.offset) IN
       IF f.kind = "Ok"
       THEN /\ dictionary' = dictionary \o f.val
            /\ matchSum' = matchSum + token.length
            /\ iters' = iters + 1
            /\ pc' = "loop"
            /\ result' = result
       ELSE /\ pc' = "done"
            /\ result' = f
            /\ UNCHANGED <<dictionary, matchSum, iters>>
    /\ UNCHANGED <<input, pos, token, cat, tokStart, litSum>>

\* lines 22-29: Offset::Literal
LiteralArm ==
    /\ pc = "lit"
    /\ LET b == read_bytes(input, pos, token.length) IN
       /\ pos' = b.pos
       /\ IF b.ok
          THEN /\ dictionary' = dictionary \o b.val
               /\ litSum' = litSum + token.length
               /\ iters' = iters + 1
               /\ pc' = "loop"
               /\ result' = result
          ELSE /\ pc' = "done"
               /\ result' = Err(ErrLiteral)
               /\ UNCHANGED <<dictionary, litSum, iters>>
    /\ UNCHANGED <<input, token, cat, tokStart, matchSum>>

Next == TokenRead \/ Break \/ DictionaryArm \/ LiteralArm

Spec == Init /\ [][Next]_vars

\* decompress is one synchronous call: it keeps running until it returns
FairSpec == Spec /\ WF_vars(Next)

----------------------------------------------------------------------------
(* cb_mask, q_mask and get_control_bytes on their own *)

InitCB ==
    /\ input \in {<<cb, r, s>> : cb \in 0..ByteMax, r \in FollowBytes, s \in FollowBytes}
    /\ pos = 0
    /\ dictionary = <<>>
    /\ pc = "call"
    /\ token = NoToken
    /\ result = NoResult
    /\ cat = 0
    /\ tokStart = 0
    /\ litSum = 0
    /\ matchSum = 0
    /\ iters = 0

CallCbMask ==
    /\ pc = "call"
    /\ cat' = cb_mask(input[1])
    /\ pc' = "masked"
    /\ UNCHANGED <<input, pos, dictionary, token, result, tokStart, litSum, matchSum, iters>>

CallGetControlBytes ==
    /\ pc = "masked"
    /\ LET t == get_control_bytes(input, 0) IN
       /\ token' = t.tok
       /\ pos' = t.pos
       /\ result' = [NoResult EXCEPT !.kind = t.kind]
    /\ pc' = "ret"
    /\ UNCHANGED <<input, dictionary, cat, tokStart, litSum, matchSum, iters>>

NextCB == CallCbMask \/ CallGetControlBytes

SpecCB == InitCB /\ [][NextCB]_vars

----------------------------------------------------------------------------
(* fetch_offset on its own *)

InitFetch ==
    /\ input = <<>>
    /\ pos = 0
    /\ dictionary \in SeqsUpTo(DictBytes, MaxDict)
    /\ pc = "call"
    /\ token \in {Dictionary(l, o) : l \in 0..MaxFetchLen, o \in 0..(MaxDict + 1)}
    /\ result = NoResult
    /\ cat = 0
    /\ tokStart = 0
    /\ litSum = 0
    /\ matchSum = 0
    /\ iters = 0

CallFetchOffset ==
    /\ pc = "call"
    /\ result' = fetch_offset(dictionary, token.length, token.offset)
    /\ pc' = "ret"
    /\ UNCHANGED <<input, pos, dictionary, token, cat, tokStart, litSum, matchSum, iters>>

NextFetch == CallFetchOffset

SpecFetch == InitFetch /\ [][NextFetch]_vars

----------------------------------------------------------------------------
(* Properties *)

\* the category table of the format, by the top three bits of the control byte
CategoryOfTop3(cb) == <<1, 3, 4, 5, 6, 7, 8, 9>>[(cb \div 32) + 1]

\* follow-up bytes a token of control byte cb needs
FollowUpBytes(cb) ==
    IF cb \div 32 = 0 THEN 0 ELSE IF cb \div 32 = 7 THEN 2 ELSE 1

\* the last token started on a match control byte and the input ended before
\* all of its follow-up bytes
MidMatchTruncation ==
    /\ tokStart < Len(input)
    /\ FollowUpBytes(input[tokStart + 1]) > 0
    /\ Len(input) - (tokStart + 1) < FollowUpBytes(input[tokStart + 1])

\* C1: when the input ends after the control byte of a dictionary match but
\* before all of its follow-up bytes, decompress returns an error and not Ok
\* with the buffer accumulated so far.
C1_TruncatedMatchFails ==
    (pc = "done" /\ MidMatchTruncation) => result.kind = "Err"

\* the state C1 is about: decompress has returned on an input cut inside a match
C1_Reached == pc = "done" /\ MidMatchTruncation /\ Len(dictionary) > 0

\* C2: a match token met with the buffer at length n fails with the
\* offset error, copying nothing and returning no buffer, when offset > n, and
\* is accepted and resolved (the buffer grows by `length`, its old content
\* kept) when offset <= n, offset = n included; on the empty buffer it fails.
C2_OffsetBoundary ==
    [][pc = "dict" =>
         /\ IF token.offset > Len(dictionary)
            THEN /\ pc' = "done"
                 /\ result' = Err(ErrOffset)
                 /\ dictionary' = dictionary
            ELSE /\ pc' = "loop"
                 /\ result'.kind = "None"
                 /\ Len(dictionary') = Len(dictionary) + token.length
                 /\ SubSeq(dictionary', 1, Len(dictionary)) = dictionary
         /\ (dictionary = <<>> => pc' = "done" /\ result'.kind = "Err")]_vars

\* a match with offset equal to the buffer length has just been resolved
C2_Witness ==
    /\ pc = "loop"
    /\ token.kind = "Dictionary"
    /\ token.offset >= 2
    /\ token.offset = Len(dictionary) - token.length

\* a match with offset one past the buffer length has just been rejected
C2_Rejected ==
    /\ pc = "done"
    /\ result = Err(ErrOffset)
    /\ token.kind = "Dictionary"
    /\ token.offset = Len(dictionary) + 1
    /\ Len(dictionary) > 0

\* C3: a Literal token of length q+1 with fewer than that many bytes left
\* in the input makes decompress return the truncated-literal error, carrying
\* neither the bytes that were available nor the buffer decoded before.
C3_TruncatedLiteral ==
    [][(pc = "lit" /\ Len(input) - pos < token.length) =>
         /\ token.length = (input[tokStart + 1] % 32) + 1
         /\ pc' = "done"
         /\ result' = Err(ErrLiteral)
         /\ result'.val = <<>>
         /\ dictionary' = dictionary]_vars

\* a literal was cut short with some, but not all, of its payload present and
\* a non-empty buffer decoded before it
C3_Witness ==
    /\ pc = "done"
    /\ result = Err(ErrLiteral)
    /\ token.kind = "Literal"
    /\ Len(dictionary) > 0
    /\ tokStart + 1 < Len(input)

\* C4: get_control_bytes returns the token of the category table for every
\* control byte: category 1 a Literal of length q+1 with no follow-up byte
\* read, categories 3..8 a match of that length at offset (q<<8)+r+1 with one
\* follow-up byte read, category 9 a match of length 9+r at offset (q<<8)+s+1
\* with two follow-up bytes read, r before s.
C4_TokenTable ==
    pc = "ret" =>
      LET cb == input[1]
          r == input[2]
          s == input[3]
          q == cb % 32
          c == CategoryOfTop3(cb)
      IN
      /\ result.kind = "Ok"
      /\ IF c = 1 THEN token = Literal(q + 1) /\ pos = 1
         ELSE IF c \in 3..8 THEN token = Dictionary(c, q * 256 + r + 1) /\ pos = 2
         ELSE c = 9 /\ token = Dictionary(9 + r, q * 256 + s + 1) /\ pos = 3

\* a category-9 token with q > 0 and r different from s has been returned
C4_Witness ==
    /\ pc = "ret"
    /\ input = <<225, 14, 255>>
    /\ token = Dictionary(23, 512)
    /\ pos = 3

\* C5: for 1 <= offset <= len, fetch_offset returns `length` bytes, the
\* i-th being dictionary[len - offset + (i mod offset)]: the head of the
\* trailing offset-byte window when length <= offset, and that window repeated
\* cyclically and cut at `length` otherwise.
C5_FetchWindow ==
    (pc = "ret" /\ 1 <= token.offset /\ token.offset <= Len(dictionary)) =>
      LET n == Len(dictionary)
          o == token.offset
          l == token.length
          window == SubSeq(dictionary, n - o + 1, n)
      IN
      /\ result.kind = "Ok"
      /\ Len(result.val) = l
      /\ \A i \in 0..(l - 1) : result.val[i + 1] = dictionary[n - o + (i % o) + 1]
      /\ l <= o => result.val = SubSeq(window, 1, l)
      /\ l > o => /\ SubSeq(result.val, 1, o) = window
                  /\ \A i \in (o + 1)..l : result.val[i] = result.val[i - o]
      /\ o = 1 => \A i \in 1..l : result.val[i] = dictionary[n]

\* a window of two different bytes has been repeated past its end
C5_Witness ==
    /\ pc = "ret"
    /\ result.kind = "Ok"
    /\ token.offset = 2
    /\ token.length = 5
    /\ Len(dictionary) = 3
    /\ result.val = <<1, 2, 1, 2, 1>>

\* C6: when the control-byte read finds the input exhausted, decompress
\* returns Ok with exactly the buffer accumulated so far; on the empty input
\* that is the empty buffer.
C6_EndOfInput ==
    /\ [][(pc = "loop" /\ pos = Len(input)) =>
            /\ pc' = "done"
            /\ result' = Ok(dictionary)
            /\ dictionary' = dictionary]_vars
    /\ []((pc = "done" /\ input = <<>>) => result = Ok(<<>>))

\* decompress has returned a non-empty buffer at a token boundary
C6_Witness ==
    /\ pc = "done"
    /\ tokStart = Len(input)
    /\ result.kind = "Ok"
    /\ Len(result.val) > 1
    /\ result.val = dictionary

\* C7: the buffer is always as long as the sum of the lengths of the
\* Literal and match tokens processed, and so is the buffer returned.
C7_LengthIsSum ==
    /\ Len(dictionary) = litSum + matchSum
    /\ result.kind = "Ok" => Len(result.val) = litSum + matchSum

\* a buffer built from a literal and a match longer than its offset was returned
C7_Witness ==
    /\ pc = "done"
    /\ result.kind = "Ok"
    /\ litSum = 1
    /\ matchSum >= 3

\* C8: every byte value is classified, so neither cb_mask's panic nor the
\* unreachable!() arm is reached, and the category is the one the top three
\* bits select.
C8_Total ==
    /\ pc \in {"masked", "ret"} =>
         /\ cat # CbPanic
         /\ cat \in {1, 3, 4, 5, 6, 7, 8, 9}
         /\ cat = CategoryOfTop3(input[1])
    /\ pc = "ret" => result.kind # "Panic"

\* the byte 0xFF has been classified as category 9
C8_Witness == pc = "ret" /\ input[1] = 255 /\ cat = 9 /\ result.kind = "Ok"

\* C9: match resolution in decompress never faults: every match token has
\* an offset in 1..8192, nothing panics, and the "Index out of bounds." error
\* is never returned.
C9_NoInternalFault ==
    /\ result.kind # "Panic"
    /\ result.msg # ErrIndex
    /\ pc = "dict" => (token.offset >= 1 /\ token.offset <= 8192)

\* a match longer than its offset has been resolved
C9_Witness ==
    /\ pc = "loop"
    /\ token.kind = "Dictionary"
    /\ token.length > token.offset
    /\ matchSum > 0

\* C10: the loop ends: every iteration that goes round again has consumed
\* at least one byte, so the iterations number at most the bytes consumed;
\* decompress returns, and after that nothing is read and the buffer stays.
C10_Terminates ==
    /\ <>(pc = "done")
    /\ [](iters <= pos /\ pos <= Len(input))
    /\ [][iters' > iters => pos' > tokStart]_vars
    /\ [][pc # "done"]_vars

\* decompress has returned after going round the loop twice
C10_Witness == pc = "done" /\ iters = 2 /\ pos = Len(input) /\ result.kind = "Ok"

====
